---- MODULE Spec2Model ----
(***************************************************************************)
(* Model of packages/server/src/fhir/operations/deploy.ts: deployLambda    *)
(* and its helpers, run against a remote function platform.  Every await   *)
(* of client.send is two steps (the request is sent, the response is       *)
(* received); the platform applies a successful request when it answers.   *)
(***************************************************************************)
EXTENDS Integers, Sequences, FiniteSets, TLC

(* ---------------- bounds ---------------- *)
MaxOverlap == 2
MaxLayerVersions == 2
MaxExternalChanges == 1

(* ---------------- program constants ---------------- *)
LAMBDA_RUNTIME == "nodejs16.x"
LAMBDA_HANDLER == "index.handler"
WRAPPER_CODE == "const userCode = require('./user.js'); exports.handler = ..."
PackageTypeZip == "Zip"
botLambdaRoleArn == "arn:aws:iam::role/bot"
botLambdaLayerName == "medplum-bot-layer"
Timeout == 10
MaxItems == 1

(* the JavaScript value undefined *)
Undefined == "undefined"

(* ---------------- input domains ---------------- *)

(* the largest max a cache is constructed with; constructor(max = 10) *)
MaxCacheSize == 2
DefaultMax == 10

Invs == 1..MaxOverlap
Names == {"medplum-bot-lambda-1", "medplum-bot-lambda-2"}
Codes == {"exports.handler = 1", "exports.handler = 2"}
LayerArns == <<"arn:layer:1", "arn:layer:2", "arn:layer:3", "arn:layer:4">>
Runtimes == {LAMBDA_RUNTIME, "nodejs14.x"}
Handlers == {LAMBDA_HANDLER, "main.handler"}

(* the Bot ids of the requests, the code a request body can carry (none,   *)
(* the empty string or a code)                                             *)
BotIds == {"1", "2"}
BodyCodes == Codes \cup {Undefined, ""}

(* keys and values of the cache; "0", "" and "false" stand for the values  *)
(* 0, the empty string and false                                           *)
KeyTable == <<"a", "b", "c", "d", "e", "f">>
CacheKeys == {KeyTable[i] : i \in 1..(MaxCacheSize + 1)}
Falsy == {"0", "", "false"}
CacheValues == Falsy \cup {"v"}

(* an optional list: a property that is missing, or a list of items *)
NoList == [defined |-> FALSE, items |-> <<>>]
List(s) == [defined |-> TRUE, items |-> s]

VARIABLES
  functions,      \* the platform's function units: name -> configuration and code
  layerVersions,  \* published versions of the bot layer, most recent first
  extChanges,     \* number of configuration changes made by others
  pc,             \* position of each deployLambda invocation in progress
  name,           \* argument name of each invocation
  code,           \* argument code of each invocation
  zipFile,        \* local zipFile of deployLambda
  exists,         \* local exists of deployLambda
  layerVersion,   \* local layerVersion of createLambda / updateLambda
  log,            \* requests sent and responses received by each invocation
  settled,        \* names whose last invocation succeeded, nothing changed by others since
  request,        \* deployHandler: the Bot read and the body of the request being handled
  outcome,        \* deployHandler: the outcomes sent for that request
  max,            \* LRUCache.max
  cache,          \* LRUCache.cache: the entries of the Map, in insertion order
  recency,        \* the stored keys, least recently used first
  lastSet,        \* per key, the value of its most recent set, until the key is evicted
  lastOp          \* the last operation on the cache, what it returned and the keys it removed

platform == <<functions, layerVersions, extChanges>>
args == <<name, code>>
locals == <<zipFile, exists, layerVersion>>
deployment == <<functions, layerVersions, extChanges, pc, name, code, zipFile, exists, layerVersion, log,
                settled>>
handler == <<request, outcome>>
lru == <<max, cache, recency, lastSet, lastOp>>
vars == <<functions, layerVersions, extChanges, pc, name, code, zipFile, exists, layerVersion, log,
          settled, request, outcome, max, cache, recency, lastSet, lastOp>>

Req(cmd, input) == [ev |-> "req", cmd |-> cmd, input |-> input]
Resp(cmd, response) == [ev |-> "resp", cmd |-> cmd, ok |-> response.ok, output |-> response]

(* ---------------- pure functions ---------------- *)

(* the archive with the two contents under each other's name *)
createZipFileSwapped(c) == ("user.js" :> WRAPPER_CODE) @@ ("index.js" :> c)

(* createZipFile: the archive as a map from entry name to content *)
createZipFile(c) == ("user.js" :> c) @@ ("index.js" :> WRAPPER_CODE)

NoZip == ("user.js" :> Undefined) @@ ("index.js" :> Undefined)

(* response.Configuration?.FunctionName *)
ReportedName(response) ==
  IF response.Configuration.defined THEN response.Configuration.FunctionName ELSE Undefined

(* lambdaExists without the comparison of names *)
lambdaExistsAnyName(response, n) == response.ok

(* lambdaExists, as a function of the outcome of the GetFunction request *)
lambdaExists(response, n) ==
  IF response.ok THEN ReportedName(response) = n ELSE FALSE

(* getLayerVersion, as a function of the outcome of ListLayerVersions:     *)
(* response.LayerVersions?.[0].LayerVersionArn                             *)
getLayerVersion(response) ==
  IF ~response.ok THEN [threw |-> TRUE, value |-> Undefined]
  ELSE IF ~response.LayerVersions.defined THEN [threw |-> FALSE, value |-> Undefined]
  ELSE IF response.LayerVersions.items = <<>> THEN [threw |-> TRUE, value |-> Undefined]
  ELSE [threw |-> FALSE, value |-> response.LayerVersions.items[1].LayerVersionArn]

(* the comparison without the handler *)
configDiffersNoHandler(functionConfig, lv) ==
  IF functionConfig.Runtime # LAMBDA_RUNTIME THEN "update"
  ELSE IF ~functionConfig.Layers.defined
         THEN (IF Undefined # lv THEN "update" ELSE "skip")
  ELSE IF functionConfig.Layers.items = <<>> THEN "throw"
  ELSE IF functionConfig.Layers.items[1].Arn # lv THEN "update" ELSE "skip"

(* the comparison that finds a difference whatever the configuration *)
configDiffersAlways(functionConfig, lv) == "update"

(* the condition of the if statement of updateLambda:                      *)
(* "update", "skip", or "throw" when functionConfig.Layers is an empty     *)
(* list and [0].Arn is read from undefined                                 *)
configDiffers(functionConfig, lv) ==
  IF functionConfig.Runtime # LAMBDA_RUNTIME THEN "update"
  ELSE IF functionConfig.Handler # LAMBDA_HANDLER THEN "update"
  ELSE IF ~functionConfig.Layers.defined
         THEN (IF Undefined # lv THEN "update" ELSE "skip")
  ELSE IF functionConfig.Layers.items = <<>> THEN "throw"
  ELSE IF functionConfig.Layers.items[1].Arn # lv THEN "update" ELSE "skip"

(* ---------------- the platform ---------------- *)

Exists(n) == n \in DOMAIN functions

(* outcomes of GetFunction: an error (not found, transient fault, missing  *)
(* permission), or a response whose Configuration may be missing and whose *)
(* FunctionName may be the name, another name or missing                   *)
GetFunctionResponses(n) ==
  {[ok |-> FALSE, Configuration |-> [defined |-> FALSE, FunctionName |-> Undefined]]}
  \cup (IF Exists(n)
        THEN {[ok |-> TRUE, Configuration |-> [defined |-> TRUE, FunctionName |-> f]] :
                 f \in {functions[n].FunctionName, Undefined} \cup (Names \ {n})}
             \cup {[ok |-> TRUE, Configuration |-> [defined |-> FALSE, FunctionName |-> Undefined]]}
        ELSE {})

(* the first MaxItems elements of a sequence *)
Take(s, k) == SubSeq(s, 1, IF Len(s) < k THEN Len(s) ELSE k)

(* outcomes of ListLayerVersions with MaxItems: 1 *)
ListLayerVersionsResponses ==
  {[ok |-> FALSE, LayerVersions |-> NoList]}
  \cup (IF layerVersions = <<>>
        THEN {[ok |-> TRUE, LayerVersions |-> NoList], [ok |-> TRUE, LayerVersions |-> List(<<>>)]}
        ELSE {[ok |-> TRUE, LayerVersions |->
                 List([i \in 1..Len(Take(layerVersions, MaxItems)) |->
                         [LayerVersionArn |-> layerVersions[i]]])]})

(* the unit the platform holds after a CreateFunction request *)
CreatedFunction(input) ==
  [FunctionName |-> input.FunctionName,
   Role |-> input.Role,
   Runtime |-> input.Runtime,
   Handler |-> input.Handler,
   PackageType |-> input.PackageType,
   Layers |-> List([i \in DOMAIN input.Layers |-> [Arn |-> input.Layers[i]]]),
   Timeout |-> input.Timeout,
   Code |-> input.Code.ZipFile,
   Published |-> IF input.Publish THEN input.Code.ZipFile ELSE NoZip]

(* the unit after an UpdateFunctionConfiguration request *)
ConfiguredFunction(f, input) ==
  [f EXCEPT !.Role = input.Role,
            !.Runtime = input.Runtime,
            !.Handler = input.Handler,
            !.Layers = List([i \in DOMAIN input.Layers |-> [Arn |-> input.Layers[i]]]),
            !.Timeout = input.Timeout]

(* the unit after an UpdateFunctionCode request *)
RecodedFunction(f, input) ==
  [f EXCEPT !.Code = input.ZipFile,
            !.Published = IF input.Publish THEN input.ZipFile ELSE f.Published]

(* ---------------- positions of an invocation ---------------- *)

Ended == {"done", "failed"}
Quiescent == \A p \in Invs : pc[p] = "idle"

(* ---------------- deployHandler: request and outcome ---------------- *)

(* the truth value of x in a condition *)
Truthy(x) == x \notin Falsy \cup {Undefined}

NoRequest == [id |-> Undefined, botCode |-> Undefined, bodyCode |-> Undefined]

(* const name = `medplum-bot-lambda-${bot.id}` *)
FunctionNameOf(id) == "medplum-bot-lambda-" \o id

(* let code = bot.code; if (req.body.code) { code = req.body.code; } *)
CodeOf(botCode, bodyCode) == IF Truthy(bodyCode) THEN bodyCode ELSE botCode

allOk == [kind |-> "allOk", message |-> "All OK"]
badRequest(msg) == [kind |-> "badRequest", message |-> msg]

(* ---------------- LRUCache: the Map and the two methods ---------------- *)

Keys(m) == {m[i].key : i \in DOMAIN m}
has(m, k) == k \in Keys(m)
mapGet(m, k) == IF has(m, k) THEN m[CHOOSE i \in DOMAIN m : m[i].key = k].val ELSE Undefined
delete(m, k) == SelectSeq(m, LAMBDA e : e.key # k)
mapSet(m, k, v) ==
  IF has(m, k)
    THEN [i \in DOMAIN m |-> IF m[i].key = k THEN [key |-> k, val |-> v] ELSE m[i]]
    ELSE Append(m, [key |-> k, val |-> v])

(* first(): this.cache.keys().next().value *)
first(m) == IF m = <<>> THEN Undefined ELSE m[1].key

(* get that deletes the item found and does not put it back *)
getDropping(m, k) ==
  LET item == mapGet(m, k) IN
  [cache |-> IF Truthy(item) THEN delete(m, k) ELSE m, result |-> item]

(* get(key): the Map after the call and the value returned *)
get(m, k) ==
  LET item == mapGet(m, k) IN
  [cache |-> IF Truthy(item) THEN mapSet(delete(m, k), k, item) ELSE m, result |-> item]

(* set that evicts only when the size is above max *)
setOffByOne(m, mx, k, v) ==
  LET kept == IF has(m, k) THEN delete(m, k)
              ELSE IF Len(m) > mx THEN delete(m, first(m))
              ELSE m
  IN mapSet(kept, k, v)

(* set(key, val): the Map after the call *)
set(m, mx, k, v) ==
  LET kept == IF has(m, k) THEN delete(m, k)
              ELSE IF Len(m) >= mx THEN delete(m, first(m))
              ELSE m
  IN mapSet(kept, k, v)

(* ---------------- initial states ---------------- *)

InitHandler ==
  /\ request = [p \in Invs |-> NoRequest]
  /\ outcome = [p \in Invs |-> <<>>]

(* new LRUCache(mx) *)
LRUCache(mx) ==
  /\ max = mx
  /\ cache = <<>>
  /\ recency = <<>>
  /\ lastSet = [k \in CacheKeys |-> Undefined]
  /\ lastOp = [op |-> "new", key |-> Undefined, val |-> Undefined, result |-> Undefined,
               removed |-> {}]

InitDeployment ==
  /\ functions = <<>>
  /\ layerVersions = <<>>
  /\ extChanges = 0
  /\ pc = [p \in Invs |-> "idle"]
  /\ name = [p \in Invs |-> Undefined]
  /\ code = [p \in Invs |-> Undefined]
  /\ zipFile = [p \in Invs |-> NoZip]
  /\ exists = [p \in Invs |-> FALSE]
  /\ layerVersion = [p \in Invs |-> Undefined]
  /\ log = [p \in Invs |-> <<>>]
  /\ settled = {}

Init == InitDeployment /\ InitHandler /\ LRUCache(DefaultMax)

(* ---------------- deployLambda ---------------- *)

(* the call with name and code kept in state shared by all invocations *)
DeployLambdaSharedArgs(p, n, c) ==
  /\ pc[p] = "idle"
  /\ \A q \in Invs : q < p => pc[q] # "idle"
  /\ pc' = [pc EXCEPT ![p] = "zip"]
  /\ name' = [q \in Invs |-> n]
  /\ code' = [q \in Invs |-> c]
  /\ UNCHANGED <<platform, locals, log, settled, lru>>

(* a call of deployLambda(client, name, code), run in the first free slot *)
DeployLambda(p, n, c) ==
  /\ pc[p] = "idle"
  /\ \A q \in Invs : q < p => pc[q] # "idle"
  /\ pc' = [pc EXCEPT ![p] = "zip"]
  /\ name' = [name EXCEPT ![p] = n]
  /\ code' = [code EXCEPT ![p] = c]
  /\ UNCHANGED <<platform, locals, log, settled, lru>>

(* the promise of deployLambda has settled: its locals are gone *)
Settle(p) ==
  /\ pc[p] \in Ended
  /\ pc' = [pc EXCEPT ![p] = "idle"]
  /\ name' = [name EXCEPT ![p] = Undefined]
  /\ code' = [code EXCEPT ![p] = Undefined]
  /\ zipFile' = [zipFile EXCEPT ![p] = NoZip]
  /\ exists' = [exists EXCEPT ![p] = FALSE]
  /\ layerVersion' = [layerVersion EXCEPT ![p] = Undefined]
  /\ log' = [log EXCEPT ![p] = <<>>]
  /\ settled' = IF pc[p] = "done" THEN settled \cup {name[p]} ELSE settled \ {name[p]}
  /\ UNCHANGED <<platform, lru>>

(* the promise of deployLambda has settled and the caller has its outcome *)
Return(p) == Settle(p) /\ UNCHANGED handler

(* const zipFile = await createZipFile(code); generateAsync may reject *)
CreateZipFile(p) ==
  /\ pc[p] = "zip"
  /\ \E built \in BOOLEAN :
       IF built
       THEN /\ zipFile' = [zipFile EXCEPT ![p] = createZipFile(code[p])]
            /\ pc' = [pc EXCEPT ![p] = "probe"]
       ELSE /\ pc' = [pc EXCEPT ![p] = "failed"]
            /\ UNCHANGED zipFile
  /\ UNCHANGED <<platform, args, exists, layerVersion, log, settled, handler, lru>>

(* lambdaExists: client.send(new GetFunctionCommand({ FunctionName: name })) *)
SendGetFunction(p) ==
  /\ pc[p] = "probe"
  /\ log' = [log EXCEPT ![p] = Append(@, Req("GetFunction", [FunctionName |-> name[p]]))]
  /\ pc' = [pc EXCEPT ![p] = "probe_w"]
  /\ UNCHANGED <<platform, args, locals, settled, handler, lru>>

(* the branch with its arms exchanged *)
PathOfExchanged(e) == IF e THEN "c_layer" ELSE "u_layer"

(* the branch that always creates *)
PathOfAlwaysCreate(e) == "c_layer"

(* the branch of deployLambda on exists *)
PathOf(e) == IF ~e THEN "c_layer" ELSE "u_layer"

(* lambdaExists returns, and deployLambda selects createLambda or updateLambda *)
RecvGetFunction(p) ==
  /\ pc[p] = "probe_w"
  /\ \E response \in GetFunctionResponses(name[p]) :
       /\ log' = [log EXCEPT ![p] = Append(@, Resp("GetFunction", response))]
       /\ exists' = [exists EXCEPT ![p] = lambdaExists(response, name[p])]
       /\ pc' = [pc EXCEPT ![p] = PathOf(lambdaExists(response, name[p]))]
  /\ UNCHANGED <<platform, args, zipFile, layerVersion, settled, handler, lru>>

(* getLayerVersion: client.send(new ListLayerVersionsCommand(...)) *)
SendListLayerVersions(p) ==
  /\ pc[p] \in {"c_layer", "u_layer"}
  /\ log' = [log EXCEPT ![p] = Append(@, Req("ListLayerVersions",
                 [LayerName |-> botLambdaLayerName, MaxItems |-> MaxItems]))]
  /\ pc' = [pc EXCEPT ![p] = IF pc[p] = "c_layer" THEN "c_layer_w" ELSE "u_layer_w"]
  /\ UNCHANGED <<platform, args, locals, settled, handler, lru>>

(* const layerVersion = await getLayerVersion(client) *)
RecvListLayerVersions(p) ==
  /\ pc[p] \in {"c_layer_w", "u_layer_w"}
  /\ \E response \in ListLayerVersionsResponses :
       LET r == getLayerVersion(response) IN
       /\ log' = [log EXCEPT ![p] = Append(@, Resp("ListLayerVersions", response))]
       /\ IF r.threw
          THEN /\ pc' = [pc EXCEPT ![p] = "failed"]
               /\ UNCHANGED layerVersion
          ELSE /\ layerVersion' = [layerVersion EXCEPT ![p] = r.value]
               /\ pc' = [pc EXCEPT ![p] = IF pc[p] = "c_layer_w" THEN "c_create" ELSE "u_getcfg"]
  /\ UNCHANGED <<platform, args, zipFile, exists, settled, handler, lru>>

(* ---------------- createLambda ---------------- *)

(* the input without the layer *)
CreateFunctionInputNoLayer(p) ==
  [FunctionName |-> name[p],
   Role |-> botLambdaRoleArn,
   Runtime |-> LAMBDA_RUNTIME,
   Handler |-> LAMBDA_HANDLER,
   PackageType |-> PackageTypeZip,
   Layers |-> <<>>,
   Code |-> [ZipFile |-> zipFile[p]],
   Publish |-> TRUE,
   Timeout |-> Timeout]

(* the input of the CreateFunctionCommand *)
CreateFunctionInput(p) ==
  [FunctionName |-> name[p],
   Role |-> botLambdaRoleArn,
   Runtime |-> LAMBDA_RUNTIME,
   Handler |-> LAMBDA_HANDLER,
   PackageType |-> PackageTypeZip,
   Layers |-> <<layerVersion[p]>>,
   Code |-> [ZipFile |-> zipFile[p]],
   Publish |-> TRUE,
   Timeout |-> Timeout]

SendCreateFunction(p) ==
  /\ pc[p] = "c_create"
  /\ log' = [log EXCEPT ![p] = Append(@, Req("CreateFunction", CreateFunctionInput(p)))]
  /\ pc' = [pc EXCEPT ![p] = "c_create_w"]
  /\ UNCHANGED <<platform, args, locals, settled, handler, lru>>

(* the rejection of the create request caught and dropped *)
RecvCreateFunctionSwallowed(p) ==
  /\ pc[p] = "c_create_w"
  /\ \E ok \in {FALSE} \cup (IF Exists(name[p]) THEN {} ELSE {TRUE}) :
       /\ log' = [log EXCEPT ![p] = Append(@, Resp("CreateFunction", [ok |-> ok]))]
       /\ functions' = IF ok THEN functions @@ (name[p] :> CreatedFunction(log[p][Len(log[p])].input))
                             ELSE functions
       /\ pc' = [pc EXCEPT ![p] = "done"]
  /\ UNCHANGED <<layerVersions, extChanges, args, locals, settled, handler, lru>>

(* the platform creates the unit unless the name is taken or the request fails *)
RecvCreateFunction(p) ==
  /\ pc[p] = "c_create_w"
  /\ \E ok \in {FALSE} \cup (IF Exists(name[p]) THEN {} ELSE {TRUE}) :
       /\ log' = [log EXCEPT ![p] = Append(@, Resp("CreateFunction", [ok |-> ok]))]
       /\ functions' = IF ok THEN functions @@ (name[p] :> CreatedFunction(log[p][Len(log[p])].input))
                             ELSE functions
       /\ pc' = [pc EXCEPT ![p] = IF ok THEN "done" ELSE "failed"]
  /\ UNCHANGED <<layerVersions, extChanges, args, locals, settled, handler, lru>>

(* ---------------- updateLambda ---------------- *)

SendGetFunctionConfiguration(p) ==
  /\ pc[p] = "u_getcfg"
  /\ log' = [log EXCEPT ![p] = Append(@, Req("GetFunctionConfiguration", [FunctionName |-> name[p]]))]
  /\ pc' = [pc EXCEPT ![p] = "u_getcfg_w"]
  /\ UNCHANGED <<platform, args, locals, settled, handler, lru>>

(* outcomes of GetFunctionConfiguration *)
GetFunctionConfigurationResponses(n) ==
  {[ok |-> FALSE, Runtime |-> Undefined, Handler |-> Undefined, Layers |-> NoList]}
  \cup (IF Exists(n)
        THEN {[ok |-> TRUE, Runtime |-> functions[n].Runtime, Handler |-> functions[n].Handler,
               Layers |-> functions[n].Layers]}
        ELSE {})

(* the position after the if statement's condition is evaluated *)
AfterCompare(d) ==
  CASE d = "update" -> "u_cfg"
    [] d = "skip" -> "u_code"
    [] OTHER -> "failed"

(* functionConfig is received and compared with the desired configuration *)
RecvGetFunctionConfiguration(p) ==
  /\ pc[p] = "u_getcfg_w"
  /\ \E functionConfig \in GetFunctionConfigurationResponses(name[p]) :
       /\ log' = [log EXCEPT ![p] = Append(@, Resp("GetFunctionConfiguration", functionConfig))]
       /\ pc' = [pc EXCEPT ![p] =
                   IF functionConfig.ok
                   THEN AfterCompare(configDiffers(functionConfig, layerVersion[p]))
                   ELSE "failed"]
  /\ UNCHANGED <<platform, args, locals, settled, handler, lru>>

(* the input of the UpdateFunctionConfigurationCommand *)
UpdateFunctionConfigurationInput(p) ==
  [FunctionName |-> name[p],
   Role |-> botLambdaRoleArn,
   Runtime |-> LAMBDA_RUNTIME,
   Handler |-> LAMBDA_HANDLER,
   Layers |-> <<layerVersion[p]>>,
   Timeout |-> Timeout]

(* the configuration update sent without being awaited *)
SendUpdateFunctionConfigurationNotAwaited(p) ==
  /\ pc[p] = "u_cfg"
  /\ log' = [log EXCEPT ![p] = Append(@, Req("UpdateFunctionConfiguration",
                                              UpdateFunctionConfigurationInput(p)))]
  /\ pc' = [pc EXCEPT ![p] = "u_code"]
  /\ UNCHANGED <<platform, args, locals, settled, handler, lru>>

SendUpdateFunctionConfiguration(p) ==
  /\ pc[p] = "u_cfg"
  /\ log' = [log EXCEPT ![p] = Append(@, Req("UpdateFunctionConfiguration",
                                              UpdateFunctionConfigurationInput(p)))]
  /\ pc' = [pc EXCEPT ![p] = "u_cfg_w"]
  /\ UNCHANGED <<platform, args, locals, settled, handler, lru>>

(* the position when a failed configuration update is sent again *)
AfterConfigUpdateRetried(ok) == IF ok THEN "u_code" ELSE "u_cfg"

(* the position when the failure of the configuration update is swallowed *)
AfterConfigUpdateSwallowed(ok) == "u_code"

(* the position after the awaited configuration update *)
AfterConfigUpdate(ok) == IF ok THEN "u_code" ELSE "failed"

RecvUpdateFunctionConfiguration(p) ==
  /\ pc[p] = "u_cfg_w"
  /\ \E ok \in {FALSE} \cup (IF Exists(name[p]) THEN {TRUE} ELSE {}) :
       /\ log' = [log EXCEPT ![p] = Append(@, Resp("UpdateFunctionConfiguration", [ok |-> ok]))]
       /\ functions' = IF ok
                       THEN [functions EXCEPT ![name[p]] =
                               ConfiguredFunction(@, log[p][Len(log[p])].input)]
                       ELSE functions
       /\ pc' = [pc EXCEPT ![p] = AfterConfigUpdate(ok)]
  /\ UNCHANGED <<layerVersions, extChanges, args, locals, settled, handler, lru>>

(* the input of the UpdateFunctionCodeCommand *)
UpdateFunctionCodeInput(p) ==
  [FunctionName |-> name[p], ZipFile |-> zipFile[p], Publish |-> TRUE]

SendUpdateFunctionCode(p) ==
  /\ pc[p] = "u_code"
  /\ log' = [log EXCEPT ![p] = Append(@, Req("UpdateFunctionCode", UpdateFunctionCodeInput(p)))]
  /\ pc' = [pc EXCEPT ![p] = "u_code_w"]
  /\ UNCHANGED <<platform, args, locals, settled, handler, lru>>

RecvUpdateFunctionCode(p) ==
  /\ pc[p] = "u_code_w"
  /\ \E ok \in {FALSE} \cup (IF Exists(name[p]) THEN {TRUE} ELSE {}) :
       /\ log' = [log EXCEPT ![p] = Append(@, Resp("UpdateFunctionCode", [ok |-> ok]))]
       /\ functions' = IF ok
                       THEN [functions EXCEPT ![name[p]] =
                               RecodedFunction(@, log[p][Len(log[p])].input)]
                       ELSE functions
       /\ pc' = [pc EXCEPT ![p] = IF ok THEN "done" ELSE "failed"]
  /\ UNCHANGED <<layerVersions, extChanges, args, locals, settled, handler, lru>>

(* ---------------- the environment, between invocations ---------------- *)

(* a new version of the bot layer is published *)
PublishLayerVersion ==
  /\ Quiescent
  /\ Len(layerVersions) < MaxLayerVersions
  /\ layerVersions' = <<LayerArns[Len(layerVersions) + 1]>> \o layerVersions
  /\ settled' = {}
  /\ UNCHANGED <<functions, extChanges, pc, args, locals, log, handler, lru>>

(* lists of attached layers a unit can be given *)
LayerLists ==
  {NoList, List(<<>>)} \cup {List(<<[Arn |-> LayerArns[i]]>>) : i \in 1..MaxLayerVersions}

(* someone else changes the configuration of a unit *)
ExternalConfigChange(n, rt, h, ls) ==
  /\ Quiescent
  /\ Exists(n)
  /\ extChanges < MaxExternalChanges
  /\ extChanges' = extChanges + 1
  /\ functions' = [functions EXCEPT ![n].Runtime = rt, ![n].Handler = h, ![n].Layers = ls]
  /\ settled' = settled \ {n}
  /\ UNCHANGED <<layerVersions, pc, args, locals, log, handler, lru>>

(* ---------------- specification: one invocation at a time ---------------- *)

Deploy ==
  \E p \in Invs, n \in Names, c \in Codes :
    Quiescent /\ DeployLambda(p, n, c) /\ UNCHANGED handler

(* the steps of invocation p inside deployLambda *)
Calls(p) ==
  \/ CreateZipFile(p)
  \/ SendGetFunction(p)
  \/ RecvGetFunction(p)
  \/ SendListLayerVersions(p)
  \/ RecvListLayerVersions(p)
  \/ SendCreateFunction(p)
  \/ RecvCreateFunction(p)
  \/ SendGetFunctionConfiguration(p)
  \/ RecvGetFunctionConfiguration(p)
  \/ SendUpdateFunctionConfiguration(p)
  \/ RecvUpdateFunctionConfiguration(p)
  \/ SendUpdateFunctionCode(p)
  \/ RecvUpdateFunctionCode(p)

(* the steps of invocation p *)
Steps(p) == Calls(p) \/ Return(p)

Step == \E p \in Invs : Steps(p)

Environment ==
  \/ PublishLayerVersion
  \/ \E n \in Names, rt \in Runtimes, h \in Handlers, ls \in LayerLists :
       ExternalConfigChange(n, rt, h, ls)

Next == Deploy \/ Step \/ Environment

Spec == Init /\ [][Next]_vars

(* ---------------- vocabulary of the properties ---------------- *)

CreatePath == {"c_layer", "c_layer_w", "c_create", "c_create_w"}
UpdatePath == {"u_layer", "u_layer_w", "u_getcfg", "u_getcfg_w", "u_cfg", "u_cfg_w", "u_code", "u_code_w"}

(* positions in the log of p of the requests / the responses of a command *)
Requests(p, cmd) == {i \in DOMAIN log[p] : log[p][i].ev = "req" /\ log[p][i].cmd = cmd}
Responses(p, cmd) == {i \in DOMAIN log[p] : log[p][i].ev = "resp" /\ log[p][i].cmd = cmd}
Count(p, cmd) == Cardinality(Requests(p, cmd))
UpdateCommands == {"GetFunctionConfiguration", "UpdateFunctionConfiguration", "UpdateFunctionCode"}

(* the layer attached to a configuration, Undefined when there is none *)
AttachedLayer(cfg) ==
  IF cfg.Layers.defined /\ cfg.Layers.items # <<>> THEN cfg.Layers.items[1].Arn ELSE Undefined

(* the existence query of p was answered with the queried name *)
Found(p) ==
  \E i \in Responses(p, "GetFunction") :
    /\ log[p][i].ok
    /\ log[p][i].output.Configuration.defined
    /\ log[p][i].output.Configuration.FunctionName = name[p]

(* ---------------- C1 ---------------- *)

(* C1 as stated: once the unit of a name exists, no create-function        *)
(* request is sent for that name, whichever remote calls succeed or fail.  *)
C1_Original ==
  \A p \in Invs : pc[p] = "c_create_w" => ~Exists(name[p])

C1_UpdatesWhenFound ==
  \A p \in Invs :
    Found(p) => /\ Count(p, "CreateFunction") = 0
                /\ pc[p] \notin CreatePath

C1_NeverDeleted ==
  \A n \in Names : n \in DOMAIN functions => n \in DOMAIN functions'

(* C1, amended: for deployLambda invocations that do not overlap, a        *)
(* deployment whose existence query succeeds and reports the queried name  *)
(* (as it can only once the unit has been created) takes the update        *)
(* sequence and sends no create-function request, and no step of any       *)
(* invocation deletes a unit.                                              *)
C1_Amended == [](C1_UpdatesWhenFound) /\ [][C1_NeverDeleted]_vars

C1_Witness ==
  \E p \in Invs : Exists(name[p]) /\ Found(p) /\ pc[p] = "u_code_w"

(* ---------------- C2 ---------------- *)

(* C2: an invocation probes at most once; after the probe it is on the     *)
(* create path iff lambdaExists returned false and on the update path iff  *)
(* it returned true, and its requests are those of that one path.          *)
C2_PathSelectedOnce ==
  \A p \in Invs :
    /\ Count(p, "GetFunction") <= 1
    /\ pc[p] \in CreatePath => ~exists[p]
    /\ pc[p] \in UpdatePath => exists[p]
    /\ Responses(p, "GetFunction") # {} =>
         /\ pc[p] \in (IF exists[p] THEN UpdatePath ELSE CreatePath) \cup Ended
         /\ exists[p] => Count(p, "CreateFunction") = 0
         /\ ~exists[p] => \A cmd \in UpdateCommands : Count(p, cmd) = 0
    /\ Responses(p, "GetFunction") = {} =>
         \A cmd \in UpdateCommands \cup {"CreateFunction", "ListLayerVersions"} : Count(p, cmd) = 0

C2_Witness ==
  \E p \in Invs : exists[p] /\ Count(p, "UpdateFunctionCode") = 1 /\ Count(p, "GetFunction") = 1

(* ---------------- C3 ---------------- *)

(* the comparison the update path is to make *)
Differs(cfg, lv) ==
  \/ cfg.Runtime # LAMBDA_RUNTIME
  \/ cfg.Handler # LAMBDA_HANDLER
  \/ AttachedLayer(cfg) # lv

(* C3 as stated: on the update path, once the current configuration has    *)
(* been read, exactly one update-function-configuration request is sent if *)
(* runtime, handler or attached layer differs from the desired value, and  *)
(* none if all three match.                                                *)
C3_Claim ==
  \A p \in Invs : \A i \in Responses(p, "GetFunctionConfiguration") :
    (log[p][i].ok /\ pc[p] # "u_cfg") =>
       Count(p, "UpdateFunctionConfiguration") =
          (IF Differs(log[p][i].output, layerVersion[p]) THEN 1 ELSE 0)


(* ---------------- C4 ---------------- *)

(* C4: whenever an invocation has sent both a configuration update and a   *)
(* code update, the configuration update was sent first and its successful *)
(* response was received before the code update was sent.                  *)
C4_ConfigBeforeCode ==
  \A p \in Invs :
    \A j \in Requests(p, "UpdateFunctionCode") :
      /\ \A i \in Requests(p, "UpdateFunctionConfiguration") :
           /\ i + 1 < j
           /\ log[p][i + 1].ev = "resp"
           /\ log[p][i + 1].cmd = "UpdateFunctionConfiguration"
           /\ log[p][i + 1].ok
      /\ pc[p] \notin {"u_cfg", "u_cfg_w"}

C4_Witness ==
  \E p \in Invs : /\ Count(p, "UpdateFunctionConfiguration") = 1
                  /\ Count(p, "UpdateFunctionCode") = 1

(* ---------------- C5 ---------------- *)

(* no request of p was answered with an error *)
NoRequestFailed(p) == \A i \in DOMAIN log[p] : log[p][i].ev = "resp" => log[p][i].ok

(* the list-layer-versions query of p failed or returned no versions *)
NoLayerVersion(p) ==
  \E i \in Responses(p, "ListLayerVersions") :
    \/ ~log[p][i].ok
    \/ ~log[p][i].output.LayerVersions.defined
    \/ log[p][i].output.LayerVersions.items = <<>>

(* C5 as stated: an update-path invocation that has ended, in which a      *)
(* layer version was found and no request failed, has sent exactly one     *)
(* update-function-code request, with the archive built in this invocation *)
(* and Publish = true, whatever the configuration comparison found.        *)
C5_Claim ==
  \A p \in Invs :
    (exists[p] /\ pc[p] \in Ended /\ NoRequestFailed(p) /\ ~NoLayerVersion(p)) =>
       /\ Count(p, "UpdateFunctionCode") = 1
       /\ \A j \in Requests(p, "UpdateFunctionCode") :
            /\ log[p][j].input.ZipFile = createZipFile(code[p])
            /\ log[p][j].input.Publish = TRUE

(* ---------------- C6 ---------------- *)

(* C6 as stated: if the list-layer-versions query fails or returns an      *)
(* empty or missing version list, the invocation fails and sends no        *)
(* create-function, update-function-configuration or update-function-code  *)
(* request.                                                                *)
C6_Claim ==
  \A p \in Invs :
    NoLayerVersion(p) =>
       /\ pc[p] = "failed"
       /\ \A cmd \in {"CreateFunction", "UpdateFunctionConfiguration", "UpdateFunctionCode"} :
            Count(p, cmd) = 0


(* ---------------- C7 ---------------- *)

(* a request other than the existence query that was answered with an      *)
(* error is the last event of its invocation, which has failed             *)
C7_FailureIsLast ==
  \A p \in Invs : \A i \in DOMAIN log[p] :
    (log[p][i].ev = "resp" /\ ~log[p][i].ok /\ log[p][i].cmd # "GetFunction") =>
       (i = Len(log[p]) /\ pc[p] = "failed")

(* the step in which an invocation fails sends nothing and leaves the      *)
(* units as they are, and a failed invocation does nothing but return      *)
C7_NothingAfterFailure ==
  \A p \in Invs :
    /\ (pc[p] # "failed" /\ pc'[p] = "failed") =>
          /\ functions' = functions
          /\ \/ log'[p] = log[p]
             \/ /\ Len(log'[p]) = Len(log[p]) + 1
                /\ SubSeq(log'[p], 1, Len(log[p])) = log[p]
                /\ log'[p][Len(log'[p])].ev = "resp"
    /\ pc[p] = "failed" =>
          /\ functions' = functions
          /\ pc'[p] = "idle" \/ (pc'[p] = "failed" /\ log'[p] = log[p])

(* C7: when a step of an invocation fails (packaging, layer resolution,    *)
(* configuration query, create, configuration update, code update), the    *)
(* invocation ends with an error, sends no request after the failing one   *)
(* and changes no unit: the units stay as the last successful request left *)
(* them.                                                                   *)
C7_FailFast == [](C7_FailureIsLast) /\ [][C7_NothingAfterFailure]_vars

C7_Witness ==
  \E p \in Invs :
    /\ pc[p] = "failed"
    /\ \E i \in Responses(p, "UpdateFunctionConfiguration") : log[p][i].ok
    /\ \E j \in Responses(p, "UpdateFunctionCode") : ~log[p][j].ok
    /\ functions[name[p]].Runtime = LAMBDA_RUNTIME
    /\ functions[name[p]].Published # zipFile[p]

(* ---------------- C8 ---------------- *)

(* C8: lambdaExists returns true exactly when the existence query succeeds *)
(* and the response reports the queried name; a response with another or a *)
(* missing name gives false, and a failed query gives false, not an error, *)
(* so that the invocation goes on along the create path.                   *)
C8_LambdaExists ==
  \A p \in Invs : \A i \in Responses(p, "GetFunction") :
    /\ exists[p] = /\ log[p][i].ok
                   /\ log[p][i].output.Configuration.defined
                   /\ log[p][i].output.Configuration.FunctionName = name[p]
    /\ i = Len(log[p]) => pc[p] \in {"c_layer", "u_layer"}
    /\ ~log[p][i].ok =>
         /\ pc[p] \in CreatePath \cup Ended
         /\ \A cmd \in UpdateCommands : Count(p, cmd) = 0

C8_Witness ==
  \E p \in Invs : \E i \in Responses(p, "GetFunction") :
    /\ log[p][i].ok
    /\ log[p][i].output.Configuration.defined
    /\ log[p][i].output.Configuration.FunctionName \notin {name[p], Undefined}
    /\ ~exists[p]
    /\ pc[p] = "c_create_w"

(* ---------------- C9 ---------------- *)

(* C9: when an invocation has returned success, the unit of its name       *)
(* exists, with the fixed runtime and handler, with the layer version      *)
(* resolved in this invocation (the most recent one published) as its      *)
(* attached layer, and with the archive of the code passed to this         *)
(* invocation as its published code.                                       *)
C9_Converged ==
  \A p \in Invs :
    pc[p] = "done" =>
      /\ Exists(name[p])
      /\ functions[name[p]].FunctionName = name[p]
      /\ functions[name[p]].Runtime = LAMBDA_RUNTIME
      /\ functions[name[p]].Handler = LAMBDA_HANDLER
      /\ AttachedLayer(functions[name[p]]) = layerVersion[p]
      /\ layerVersions # <<>> => AttachedLayer(functions[name[p]]) = layerVersions[1]
      /\ functions[name[p]].Published = createZipFile(code[p])

C9_Witness ==
  \E p \in Invs :
    /\ pc[p] = "done"
    /\ exists[p]
    /\ Count(p, "UpdateFunctionConfiguration") = 1
    /\ layerVersion[p] # Undefined

(* ---------------- C10 ---------------- *)

(* the list-layer-versions query of p has returned a value to createLambda *)
LayerResolved(p) ==
  \E i \in Responses(p, "ListLayerVersions") :
    log[p][i].ok /\ log[p][i].output.LayerVersions # List(<<>>)

(* C10: a create-path invocation sends at most one create-function         *)
(* request, and exactly one once its layer version is resolved and the     *)
(* request is due; the request carries the name, the configured role, the  *)
(* fixed runtime and handler, the zip package type, the resolved layer     *)
(* reference, the archive, Publish = true and Timeout = 10; the invocation *)
(* sends no configuration query, no configuration update and no code       *)
(* update.                                                                 *)
C10_CreateRequest ==
  \A p \in Invs :
    (Responses(p, "GetFunction") # {} /\ ~exists[p]) =>
      /\ Count(p, "CreateFunction") <= 1
      /\ (LayerResolved(p) /\ pc[p] # "c_create") => Count(p, "CreateFunction") = 1
      /\ \A i \in Requests(p, "CreateFunction") :
           log[p][i].input =
             [FunctionName |-> name[p],
              Role |-> botLambdaRoleArn,
              Runtime |-> LAMBDA_RUNTIME,
              Handler |-> LAMBDA_HANDLER,
              PackageType |-> "Zip",
              Layers |-> <<layerVersion[p]>>,
              Code |-> [ZipFile |-> createZipFile(code[p])],
              Publish |-> TRUE,
              Timeout |-> 10]
      /\ \A cmd \in UpdateCommands : Count(p, cmd) = 0

C10_Witness ==
  \E p \in Invs :
    /\ pc[p] = "done"
    /\ ~exists[p]
    /\ Count(p, "CreateFunction") = 1
    /\ layerVersion[p] # Undefined

(* ---------------- specification: overlapping invocations ---------------- *)

(* the code of overlapping invocations: which code is deployed plays no    *)
(* part in how invocations of equal or different names interfere           *)
OverlapCodes == {"exports.handler = 1"}

(* deployLambda is called while other invocations are in progress *)
DeployConcurrently ==
  \E p \in Invs, n \in Names, c \in OverlapCodes : DeployLambda(p, n, c) /\ UNCHANGED handler

NextConcurrent == DeployConcurrently \/ Step \/ PublishLayerVersion

SpecConcurrent == Init /\ [][NextConcurrent]_vars

(* ---------------- C11 ---------------- *)

(* invocation q takes this step *)
Moves(q) == pc'[q] # pc[q] \/ log'[q] # log[q]

(* what invocation p holds and what the platform can answer it is the same *)
(* after the step as before                                                *)
Untouched(p) ==
  /\ pc'[p] = pc[p] /\ log'[p] = log[p]
  /\ name'[p] = name[p] /\ code'[p] = code[p]
  /\ zipFile'[p] = zipFile[p] /\ exists'[p] = exists[p] /\ layerVersion'[p] = layerVersion[p]
  /\ (name[p] \in DOMAIN functions') = (name[p] \in DOMAIN functions)
  /\ name[p] \in DOMAIN functions => functions'[name[p]] = functions[name[p]]
  /\ layerVersions' = layerVersions
  /\ GetFunctionResponses(name[p])' = GetFunctionResponses(name[p])
  /\ GetFunctionConfigurationResponses(name[p])' = GetFunctionConfigurationResponses(name[p])
  /\ ListLayerVersionsResponses' = ListLayerVersionsResponses

C11_StepsAreIndependent ==
  \A p \in Invs, q \in Invs :
    (p # q /\ pc[p] # "idle" /\ name[p] # name[q] /\ Moves(q)) => Untouched(p)

(* C11: while invocations on different names overlap, with the published   *)
(* layer versions unchanged, a step of one invocation changes neither the  *)
(* other invocation (its position, arguments, locals and requests) nor the *)
(* unit of the other name nor any answer the platform can give the other   *)
(* invocation: each runs, and leaves its unit, as it does alone.           *)
C11_Independent == [][C11_StepsAreIndependent]_vars

C11_Witness ==
  \E p \in Invs, q \in Invs :
    /\ name[p] # name[q]
    /\ pc[p] = "c_create_w"
    /\ pc[q] = "u_code_w"
    /\ Exists(name[q])

(* ---------------- C14 ---------------- *)

(* invocation p has sent a create-function request *)
SentCreate(p) == Count(p, "CreateFunction") > 0

(* the create-function request of p was accepted *)
Created(p) == \E i \in Responses(p, "CreateFunction") : log[p][i].ok

(* C14 as stated: in every interleaving of invocations for one name, at    *)
(* most one create-function request is sent for that name.                 *)
C14_Original ==
  \A p \in Invs, q \in Invs :
    (p # q /\ name[p] = name[q]) => ~(SentCreate(p) /\ SentCreate(q))

(* C14, amended: in every interleaving of invocations for one name, each   *)
(* invocation sends at most one create-function request and at most one    *)
(* create-function request for the name is accepted; invocations that both *)
(* probe before either creates both send one, and the one whose request is *)
(* rejected ends with an error; the platform holds one unit for the name.  *)
C14_Amended ==
  \A p \in Invs :
    /\ Count(p, "CreateFunction") <= 1
    /\ (SentCreate(p) /\ pc[p] = "done") => Created(p)
    /\ Created(p) => /\ Exists(name[p])
                     /\ functions[name[p]].FunctionName = name[p]
    /\ \A q \in Invs : (p # q /\ name[p] = name[q]) =>
          /\ ~(Created(p) /\ Created(q))
          /\ ~(SentCreate(p) /\ SentCreate(q) /\ pc[p] = "done" /\ pc[q] = "done")

C14_Witness ==
  \E p \in Invs, q \in Invs :
    /\ p # q /\ name[p] = name[q]
    /\ SentCreate(p) /\ SentCreate(q)
    /\ pc[p] = "done" /\ pc[q] = "failed"

(* ---------------- C12 ---------------- *)

(* C12 as stated: the layer version an invocation resolves is the first    *)
(* element of the list returned, and every create-function and             *)
(* update-function-configuration request carries exactly that identifier,  *)
(* never an absent or undefined one.                                       *)
C12_Claim ==
  \A p \in Invs :
    /\ \A i \in Responses(p, "ListLayerVersions") :
         (log[p][i].ok /\ log[p][i].output.LayerVersions.defined
            /\ log[p][i].output.LayerVersions.items # <<>>) =>
               layerVersion[p] = log[p][i].output.LayerVersions.items[1].LayerVersionArn
    /\ \A cmd \in {"CreateFunction", "UpdateFunctionConfiguration"} :
         \A j \in Requests(p, cmd) :
           /\ Len(log[p][j].input.Layers) = 1
           /\ log[p][j].input.Layers[1] # Undefined
           /\ layerVersions # <<>>
           /\ log[p][j].input.Layers[1] = layerVersions[1]

(* ---------------- C13 ---------------- *)

(* an archive of exactly the two entries, user.js with the code and        *)
(* index.js with the wrapper                                               *)
IsArchiveOf(z, c) ==
  /\ DOMAIN z = {"user.js", "index.js"}
  /\ z["user.js"] = c
  /\ z["index.js"] = WRAPPER_CODE

(* C13: the archive of an invocation has exactly the entries user.js, with *)
(* the code passed to this invocation, and index.js, with the wrapper; it  *)
(* is built before the invocation sends any request, and the archive every *)
(* create-function and update-function-code request carries is that of     *)
(* this invocation's code, whatever an earlier invocation deployed.        *)
C13_Archive ==
  \A p \in Invs :
    /\ pc[p] \in {"idle", "zip"} => log[p] = <<>>
    /\ log[p] # <<>> => IsArchiveOf(zipFile[p], code[p])
    /\ \A j \in Requests(p, "CreateFunction") : IsArchiveOf(log[p][j].input.Code.ZipFile, code[p])
    /\ \A j \in Requests(p, "UpdateFunctionCode") : IsArchiveOf(log[p][j].input.ZipFile, code[p])

C13_Witness ==
  \E p \in Invs :
    /\ pc[p] = "u_code_w"
    /\ Exists(name[p])
    /\ functions[name[p]].Published["user.js"] # code[p]

(* ---------------- C16 ---------------- *)

AllCommands == UpdateCommands \cup {"GetFunction", "ListLayerVersions", "CreateFunction"}

(* each request shape at most once, and requests and responses alternate:  *)
(* a request is sent only when every earlier one has been answered         *)
C16_OneAtATime ==
  \A p \in Invs :
    /\ \A cmd \in AllCommands : Count(p, cmd) <= 1
    /\ \A i \in DOMAIN log[p] :
         /\ (log[p][i].ev = "req") = (i % 2 = 1)
         /\ log[p][i].cmd \in AllCommands
         /\ i % 2 = 0 => log[p][i].cmd = log[p][i - 1].cmd

(* every remote call of an invocation returns or fails, and the invocation *)
(* runs on when it does                                                    *)
SpecFair == Spec /\ \A p \in Invs : WF_vars(Steps(p))

(* C16: provided each remote call eventually returns or fails, every       *)
(* invocation ends; an invocation sends each request shape at most once    *)
(* and one request after another, none while another is outstanding.       *)
C16_Terminates ==
  /\ [](C16_OneAtATime)
  /\ \A p \in Invs : (pc[p] = "zip") ~> (pc[p] \in Ended)

C16_Witness ==
  \E p \in Invs : pc[p] = "done" /\ Len(log[p]) = 10

(* ---------------- C15 ---------------- *)

(* C15: the invocation that follows a successful one for the same name,    *)
(* with no layer version published and no configuration changed by others  *)
(* in between, never sends an update-function-configuration request and    *)
(* sends at most one update-function-code request; when it returns success *)
(* it has sent exactly one, and no create-function request; and it returns *)
(* success whenever its existence query finds the unit, a layer version is *)
(* listed and none of its requests fails. (An invocation cut short by a    *)
(* failed request sends no further request; one whose existence query      *)
(* fails takes the create path and sends no update-function-code request.) *)
C15_Stable ==
  \A p \in Invs :
    (name[p] \in settled /\ pc[p] # "idle") =>
      /\ Exists(name[p])
      /\ Count(p, "UpdateFunctionConfiguration") = 0
      /\ Count(p, "UpdateFunctionCode") <= 1
      /\ pc[p] = "done" =>
           /\ Count(p, "UpdateFunctionCode") = 1
           /\ Count(p, "CreateFunction") = 0
      /\ (pc[p] \in Ended /\ Found(p) /\ NoRequestFailed(p) /\ ~NoLayerVersion(p)) => pc[p] = "done"
      /\ (pc[p] \in Ended /\ ~exists[p]) => Count(p, "UpdateFunctionCode") = 0

C15_Witness ==
  \E p \in Invs :
    /\ name[p] \in settled
    /\ pc[p] = "done"
    /\ layerVersion[p] # Undefined
    /\ Count(p, "UpdateFunctionConfiguration") = 0
    /\ Count(p, "UpdateFunctionCode") = 1

(* ---------------- specification: deployHandler ---------------- *)

(* the message of the error deployLambda rejected with: that of the        *)
(* archive, of the request that failed, or of the TypeError                *)
Message(p) ==
  IF log[p] = <<>> THEN "createZipFile"
  ELSE LET last == log[p][Len(log[p])] IN
       IF last.ev = "resp" /\ ~last.ok THEN last.cmd ELSE "TypeError"

(* the handler reads the Bot, picks name and code and calls deployLambda *)
DeployHandler(p, id, botCode, bodyCode) ==
  /\ Quiescent
  /\ request' = [q \in Invs |->
                   IF q = p THEN [id |-> id, botCode |-> botCode, bodyCode |-> bodyCode]
                   ELSE NoRequest]
  /\ outcome' = [q \in Invs |-> <<>>]
  /\ DeployLambda(p, FunctionNameOf(id), CodeOf(botCode, bodyCode))

(* the outcome that reports success whatever deployLambda did *)
OutcomeOfAlwaysOk(p) == allOk

(* try { await deployLambda(...); allOk } catch (err) { badRequest(err.message) } *)
OutcomeOf(p) == IF pc[p] = "done" THEN allOk ELSE badRequest(Message(p))

(* sendOutcome(res, ...) once deployLambda has settled *)
SendOutcome(p) ==
  /\ request[p] # NoRequest
  /\ outcome' = [outcome EXCEPT ![p] = Append(@, OutcomeOf(p))]
  /\ Settle(p)
  /\ UNCHANGED request

Handle ==
  \E p \in Invs, id \in BotIds, botCode \in Codes, bodyCode \in BodyCodes :
    DeployHandler(p, id, botCode, bodyCode)

HandlerStep == \E p \in Invs : Calls(p) \/ SendOutcome(p)

NextHandler == Handle \/ HandlerStep \/ PublishLayerVersion

SpecHandler == Init /\ [][NextHandler]_vars

(* ---------------- C17 ---------------- *)

C17_OneOutcome ==
  \A p \in Invs :
    /\ Len(outcome[p]) <= 1
    /\ pc[p] # "idle" =>
         /\ request[p] # NoRequest
         /\ outcome[p] = <<>>
         /\ name[p] = "medplum-bot-lambda-" \o request[p].id
         /\ code[p] = IF request[p].bodyCode \in Codes THEN request[p].bodyCode
                      ELSE request[p].botCode
    /\ (pc[p] = "idle" /\ request[p] # NoRequest) => Len(outcome[p]) = 1

C17_OutcomeReportsResult ==
  \A p \in Invs :
    (pc[p] \in Ended /\ pc'[p] = "idle") =>
      /\ Len(outcome'[p]) = 1
      /\ (outcome'[p][1].kind = "allOk") = (pc[p] = "done")
      /\ pc[p] = "failed" => outcome'[p][1] = [kind |-> "badRequest", message |-> Message(p)]

(* C17: for a request whose Bot was read, the handler sends exactly one     *)
(* outcome, after deployLambda has settled and none before: allOk if and   *)
(* only if deployLambda returned without error, else badRequest with the   *)
(* message of the error; deployLambda is called with the name              *)
(* medplum-bot-lambda-<Bot id> and with the code of the request body when  *)
(* the body carries one (a non-empty string), else the Bot's stored code.  *)
C17_Handler == [](C17_OneOutcome) /\ [][C17_OutcomeReportsResult]_vars

C17_Witness ==
  \E p \in Invs :
    /\ pc[p] = "idle"
    /\ request[p].bodyCode \in Codes \ {request[p].botCode}
    /\ outcome[p] = <<[kind |-> "badRequest", message |-> "UpdateFunctionConfiguration"]>>

(* ---------------- specification: LRUCache ---------------- *)

(* a call of get(k) *)
Get(k) ==
  LET r == get(cache, k) IN
  /\ cache' = r.cache
  /\ recency' = IF has(cache, k) THEN Append(SelectSeq(recency, LAMBDA x : x # k), k)
                ELSE recency
  /\ lastOp' = [op |-> "get", key |-> k, val |-> Undefined, result |-> r.result,
                 removed |-> Keys(cache) \ Keys(r.cache)]
  /\ UNCHANGED <<max, lastSet, deployment, handler>>

(* a call of set(k, v) *)
Set(k, v) ==
  LET after == set(cache, max, k, v)
      gone == Keys(cache) \ Keys(after)
  IN
  /\ cache' = after
  /\ recency' = Append(SelectSeq(recency, LAMBDA x : x # k /\ x \notin gone), k)
  /\ lastSet' = [x \in CacheKeys |->
                   IF x = k THEN v ELSE IF x \in gone THEN Undefined ELSE lastSet[x]]
  /\ lastOp' = [op |-> "set", key |-> k, val |-> v, result |-> Undefined, removed |-> gone]
  /\ UNCHANGED <<max, deployment, handler>>

InitLRU == InitDeployment /\ InitHandler /\ \E mx \in 1..MaxCacheSize : LRUCache(mx)

NextLRU ==
  \/ \E k \in CacheKeys : Get(k)
  \/ \E k \in CacheKeys, v \in CacheValues : Set(k, v)

SpecLRU == InitLRU /\ [][NextLRU]_vars

(* the stored value of each key, undefined for a key that is not stored *)
Stored(m) == [k \in CacheKeys |-> mapGet(m, k)]

(* this step is a set of a key that is not stored, into a full cache *)
SetsNewKeyIntoFull ==
  /\ lastOp'.op = "set"
  /\ lastOp'.key \notin Keys(cache)
  /\ Len(cache) = max

(* ---------------- C18 ---------------- *)

C18_Bounded ==
  /\ max >= 1
  /\ Len(cache) <= max
  /\ Cardinality(Keys(cache)) = Len(cache)

C18_RemovesOne ==
  SetsNewKeyIntoFull =>
    /\ Cardinality(Keys(cache) \ Keys(cache')) = 1
    /\ Keys(cache') \ Keys(cache) = {lastOp'.key}
    /\ Len(cache') = max

(* C18: a cache constructed with max >= 1 never holds more than max        *)
(* entries (one per key), and a set of a new key into a full cache removes *)
(* exactly one of the entries stored and adds the new one.                 *)
C18_Size == [](C18_Bounded) /\ [][C18_RemovesOne]_vars

C18_Witness ==
  /\ max = MaxCacheSize
  /\ Len(cache) = max
  /\ lastOp.op = "set"
  /\ lastOp.removed # {}
  /\ lastOp.key \in Keys(cache)

(* ---------------- C19 ---------------- *)

(* C19 as stated: the entry a set of a new key into a full cache removes   *)
(* is the least recently used one, a use being a set of the key or a get   *)
(* that found it, whatever the values stored (0, "" and false included).   *)
C19_Claim ==
  [][SetsNewKeyIntoFull => Keys(cache) \ Keys(cache') = {Head(recency)}]_vars

(* ---------------- C20 ---------------- *)

C20_Get ==
  lastOp'.op = "get" =>
    /\ lastOp'.result = lastSet[lastOp'.key]
    /\ (lastOp'.key \in Keys(cache)) = (lastSet[lastOp'.key] # Undefined)
    /\ lastOp'.key \notin Keys(cache) => lastOp'.result = Undefined
    /\ Stored(cache') = Stored(cache)

C20_SetStoredKey ==
  (lastOp'.op = "set" /\ lastOp'.key \in Keys(cache)) =>
    /\ Keys(cache') = Keys(cache)
    /\ Stored(cache') = [Stored(cache) EXCEPT ![lastOp'.key] = lastOp'.val]

(* C20: get(k) returns the value of the most recent set(k, v) when k has   *)
(* not been evicted since, and undefined otherwise; get leaves the stored  *)
(* keys and their values as they are; a set of a stored key replaces its   *)
(* value and removes no key, also when the cache is full.                  *)
C20_Frame == [][C20_Get /\ C20_SetStoredKey]_vars

C20_Witness ==
  /\ Len(cache) = max
  /\ lastOp.op = "get"
  /\ lastOp.result \in Falsy
  /\ \E k \in CacheKeys : lastSet[k] = Undefined /\ k # lastOp.key

====
